---------------------------- MODULE Spec2Model ----------------------------
(***************************************************************************)
(* Model of the sales-report service: CSVService.read_sales_data (parse),  *)
(* PDFService.generate_sales_report (render) and the three router          *)
(* endpoints (generate, download, list), together with the file system     *)
(* they act on.                                                            *)
(*                                                                         *)
(* Text is a sequence of one-character strings.  Python values that reach  *)
(* int(), float() and `or` are tagged records: None, a str or an int.      *)
(* Prices are held in hundredths (9.99 is 999), so that comparisons with   *)
(* zero are exact.                                                         *)
(***************************************************************************)
EXTENDS Integers, Sequences, FiniteSets, TLC

(* ------------------------------ bounds -------------------------------- *)

\* largest number of data rows of a CSV source
MaxRows == 2

\* the clock runs from tick 0 to tick MaxTick
MaxTick == 3

\* clock ticks per whole second
TicksPerSecond == 2

(* --------------------------- program constants ------------------------ *)

\* Field(min_length=1) of SalesItem.product
MinProductLen == 1

\* Field(ge=1) of SalesItem.quantity
MinQuantity == 1

\* Field(ge=0) of SalesItem.price
MinPrice == 0

(* ----------------------------- Python values -------------------------- *)

None == [t |-> "none"]

StrVal(s) == [t |-> "str", s |-> s]

IntVal(n) == [t |-> "int", v |-> n]

\* Python truthiness of None, a str and an int
Truthy(v) ==
    CASE v.t = "none" -> FALSE
      [] v.t = "str"  -> v.s # << >>
      [] v.t = "int"  -> v.v # 0

\* a or b
PyOr(a, b) == IF Truthy(a) THEN a ELSE b

RECURSIVE LStrip(_)
LStrip(s) == IF s # << >> /\ Head(s) = " " THEN LStrip(Tail(s)) ELSE s

RECURSIVE RStrip(_)
RStrip(s) ==
    IF s # << >> /\ s[Len(s)] = " " THEN RStrip(SubSeq(s, 1, Len(s) - 1)) ELSE s

\* str.strip()
Strip(s) == RStrip(LStrip(s))

Digits == <<"0", "1", "2", "3", "4", "5", "6", "7", "8", "9">>

IsDigit(c) == \E i \in 1..Len(Digits) : Digits[i] = c

DigitVal(c) == (CHOOSE i \in 1..Len(Digits) : Digits[i] = c) - 1

AllDigits(s) == \A i \in 1..Len(s) : IsDigit(s[i])

RECURSIVE DigitsVal(_)
DigitsVal(s) ==
    IF s = << >> THEN 0
    ELSE 10 * DigitsVal(SubSeq(s, 1, Len(s) - 1)) + DigitVal(s[Len(s)])

Ok(v) == [ok |-> TRUE, v |-> v]

Raise(e) == [ok |-> FALSE, exc |-> e]

Unsigned(s) == IF s # << >> /\ s[1] \in {"-", "+"} THEN Tail(s) ELSE s

Signed(s, n) == IF s # << >> /\ s[1] = "-" THEN 0 - n ELSE n

\* int(v): an int is returned as it is, None is a TypeError, a str is
\* stripped and must be an optional sign followed by one or more digits
PyInt(v) ==
    CASE v.t = "none" -> Raise("TypeError")
      [] v.t = "int"  -> Ok(v.v)
      [] v.t = "str"  ->
           LET s == Strip(v.s)
               d == Unsigned(s)
           IN  IF d # << >> /\ AllDigits(d)
               THEN Ok(Signed(s, DigitsVal(d)))
               ELSE Raise("ValueError")

DotAt(s) == IF \E i \in 1..Len(s) : s[i] = "."
            THEN CHOOSE i \in 1..Len(s) : s[i] = "." /\ \A j \in 1..(i - 1) : s[j] # "."
            ELSE Len(s) + 1

\* the first two fractional digits as hundredths
Hundredths(f) ==
    CASE Len(f) = 0 -> 0
      [] Len(f) = 1 -> 10 * DigitVal(f[1])
      [] OTHER      -> 10 * DigitVal(f[1]) + DigitVal(f[2])

\* float(v), in hundredths: None is a TypeError, a str is stripped and must
\* be an optional sign, digits, and an optional point with digits, with at
\* least one digit in all
PyFloat(v) ==
    CASE v.t = "none" -> Raise("TypeError")
      [] v.t = "int"  -> Ok(100 * v.v)
      [] v.t = "str"  ->
           LET s == Strip(v.s)
               d == Unsigned(s)
               k == DotAt(d)
               w == SubSeq(d, 1, k - 1)
               f == SubSeq(d, k + 1, Len(d))
           IN  IF AllDigits(w) /\ AllDigits(f) /\ Len(w) + Len(f) >= 1
               THEN Ok(Signed(s, 100 * DigitsVal(w) + Hundredths(f)))
               ELSE Raise("ValueError")

(* ------------------------- models/sales.py ---------------------------- *)

\* SalesItem(product=, quantity=, price=): the field constraints are checked
\* on the value as given, then the validator strips the product
SalesItem(product, quantity, price) ==
    IF \/ Len(product) < MinProductLen
       \/ quantity < MinQuantity
       \/ price < MinPrice
    THEN Raise("ValidationError")
    ELSE Ok([product |-> Strip(product), quantity |-> quantity, price |-> price])

\* SalesItem.total
ItemTotal(it) == it.quantity * it.price

(* ------------------------- csv.DictReader ----------------------------- *)

HasColumn(h, key) == \E i \in 1..Len(h) : h[i] = key

ColumnOf(h, key) == CHOOSE i \in 1..Len(h) : h[i] = key /\ \A j \in (i + 1)..Len(h) : h[j] # key

\* row.get(key, default) on the dict DictReader builds for a row: a column
\* of the header the row has no cell for holds None (restval), cells beyond
\* the header go under the key None
RowGet(h, row, key, default) ==
    IF ~HasColumn(h, key) THEN default
    ELSE IF ColumnOf(h, key) <= Len(row) THEN StrVal(row[ColumnOf(h, key)])
    ELSE None

(* --------------------- CSVService.read_sales_data --------------------- *)

\* the body of the per-row try block: what one row does to the parse
RowOutcome(h, row) ==
    LET a  == RowGet(h, row, "Producto", None)
        b  == RowGet(h, row, "Product", StrVal(<< >>))
        q  == PyInt(PyOr(RowGet(h, row, "Cantidad", None),
                         RowGet(h, row, "Quantity", IntVal(0))))
        p  == PyFloat(PyOr(RowGet(h, row, "Precio", None),
                           RowGet(h, row, "Price", IntVal(0))))
    IN  IF ~Truthy(a) /\ b.t = "none"
        THEN [k |-> "abort", exc |-> "AttributeError"]
        ELSE LET product == IF Truthy(a) THEN a.s ELSE Strip(b.s)
             IN  IF ~q.ok THEN [k |-> "skip", level |-> "error", exc |-> q.exc]
                 ELSE IF ~p.ok THEN [k |-> "skip", level |-> "error", exc |-> p.exc]
                 ELSE IF product = << >>
                      THEN [k |-> "skip", level |-> "warning", exc |-> "none"]
                 ELSE LET made == SalesItem(product, q.v, p.v)
                      IN  IF made.ok THEN [k |-> "item", item |-> made.v]
                          ELSE [k |-> "skip", level |-> "error", exc |-> made.exc]

\* a plausible slip: the item is put at the front of the list
AppendItemFront(its, it, i) ==
    <<[product |-> it.product, quantity |-> it.quantity,
       price |-> it.price, row |-> i]>> \o its

\* items.append(item); the item remembers the data row it came from
AppendItem(its, it, i) ==
    Append(its, [product |-> it.product, quantity |-> it.quantity,
                 price |-> it.price, row |-> i])

\* SalesReport.total_revenue
RECURSIVE TotalRevenue(_)
TotalRevenue(its) ==
    IF its = << >> THEN 0 ELSE ItemTotal(Head(its)) + TotalRevenue(Tail(its))

(* --------------------- PDFService.generate_sales_report --------------- *)

\* a plausible slip: a format that keeps the fraction of the second
FormatTimestampFraction(t) == t

\* datetime.now().strftime("%Y%m%d_%H%M%S"): the whole second of the tick
FormatTimestamp(t) == t \div TicksPerSecond

\* f"sales_report_{timestamp}.pdf"
Filename(ts) == <<"sales_report_", ts, ".pdf">>

\* filename.endswith('.pdf')
EndsWithPdf(n) == n[Len(n)] = ".pdf"

\* the names a render can give its output while the clock runs
FileNames == {Filename(FormatTimestamp(t)) : t \in 0..MaxTick}

(* ------------------------- routers/reports.py ------------------------- *)

\* the except clauses of the generate endpoint, in their order
StatusFor(e) ==
    CASE e.type = "none"              -> 200
      [] e.type = "FileNotFoundError" -> 404
      [] e.type = "ValueError"        -> 400
      [] OTHER                        -> 500

(* ------------------------------ inputs -------------------------------- *)

Requests == {"r1", "r2"}

Headers ==
    { <<"Product", "Quantity", "Price">>,
      <<"Producto", "Cantidad", "Precio">>,
      <<"Quantity", "Price", "Product">>,
      <<"Cantidad", "Precio", "Producto">>,
      <<"Product", "Quantity">> }

Cells(p, q, c) == [product |-> p, quantity |-> q, price |-> c]

GoodRow == Cells(<<"W">>, <<"3">>, <<"9", ".", "9", "9">>)

LogicalRows ==
    { GoodRow,
      Cells(<<" ", "G", " ">>, <<"1">>, <<"5">>),
      Cells(<< >>, <<"3">>, <<"5">>),
      Cells(<<" ">>, <<"3">>, <<"5">>),
      Cells(<<"W">>, <<"x">>, <<"5">>),
      Cells(<<"W">>, <<"0">>, <<"5">>),
      Cells(<<"W">>, << >>, <<"5">>),
      Cells(<<"W">>, <<"3">>, << >>),
      Cells(<<"W">>, <<"3">>, <<"x">>),
      Cells(<<"W">>, <<"3">>, <<"-", "1">>) }

FieldOf(r, col) ==
    CASE col \in {"Producto", "Product"}  -> r.product
      [] col \in {"Cantidad", "Quantity"} -> r.quantity
      [] col \in {"Precio", "Price"}      -> r.price

\* the first n cells of a logical row laid out under header h
Layout(h, r, n) == [i \in 1..n |-> IF i <= Len(h) THEN FieldOf(r, h[i]) ELSE <<"x">>]

\* the data rows a source with header h may hold: every logical row in
\* full, and the good row cut short (down to a blank line) and overlong
RowSet(h) ==
    {Layout(h, r, Len(h)) : r \in LogicalRows}
        \cup {Layout(h, GoodRow, n) : n \in 0..(Len(h) + 1)}

RECURSIVE SeqsUpTo(_, _)
SeqsUpTo(S, n) ==
    IF n = 0 THEN {<< >>}
    ELSE LET shorter == SeqsUpTo(S, n - 1)
         IN  shorter \cup {Append(s, x) : s \in shorter, x \in S}

\* reports built directly by a caller of render
DirectReports ==
    { << >>,
      <<[product |-> <<"W">>, quantity |-> 3, price |-> 999, row |-> 0]>> }

(* ------------------------------- state -------------------------------- *)

VARIABLES
    csvState,    \* data/ventas.csv: "absent", "readable", "unopenable", "undecodable"
    header,      \* its header row
    rows,        \* its data rows
    reportsDir,  \* reports/: "absent", "uncreatable", "present", "readonly"
    files,       \* the files of reports/: name -> [st, by]
    clock,       \* the wall clock, in ticks
    mode,        \* what each request calls: "parse", "render", "endpoint"
    pc,          \* where each request stands
    rowIdx,      \* read_sales_data: the data row the reader is at
    items,       \* read_sales_data: items; generate_sales_report: sales_data.items
    exc,         \* the exception a request's call raised: [type, at]
    stamp,       \* generate_sales_report: the tick of datetime.now()
    fname,       \* generate_sales_report: filename
    desc,        \* generate_sales_report: the ReportResponse returned
    status,      \* generate endpoint: the HTTP status answered
    listed,      \* what the last list_reports returned
    served       \* what the last download_report returned

vars == <<csvState, header, rows, reportsDir, files, clock, mode, pc, rowIdx,
          items, exc, stamp, fname, desc, status, listed, served>>

csvVars == <<csvState, header, rows>>

parseVars == <<rowIdx, items>>

renderVars == <<stamp, fname, desc>>

endpointVars == <<listed, served>>

NoExc == [type |-> "none", at |-> "none"]

Exc(type, at) == [type |-> type, at |-> at]

NoName == << >>

NoDesc == [filename |-> NoName, items_count |-> 0, total_revenue |-> 0]

NoFile == [st |-> "none", by |-> "none"]

(* --------------------- CSVService.read_sales_data --------------------- *)

\* lines 33-38: the existence check
CheckExists(r) ==
    /\ pc[r] = "parse_start"
    /\ IF csvState = "absent"
       THEN /\ pc' = [pc EXCEPT ![r] = "parse_raised"]
            /\ exc' = [exc EXCEPT ![r] = Exc("FileNotFoundError", "exists")]
            /\ items' = items
       ELSE /\ pc' = [pc EXCEPT ![r] = "parse_open"]
            /\ exc' = exc
            /\ items' = [items EXCEPT ![r] = << >>]
    /\ UNCHANGED <<csvVars, reportsDir, files, clock, mode, rowIdx, renderVars,
                   status, endpointVars>>

\* lines 40-44 and 66-68: open() and the reader's first read, inside the
\* outer try; whatever they raise is raised again as a ValueError
OpenCsv(r) ==
    /\ pc[r] = "parse_open"
    /\ IF csvState = "readable"
       THEN /\ pc' = [pc EXCEPT ![r] = "parse_rows"]
            /\ rowIdx' = [rowIdx EXCEPT ![r] = 1]
            /\ exc' = exc
       ELSE /\ pc' = [pc EXCEPT ![r] = "parse_raised"]
            /\ rowIdx' = rowIdx
            /\ exc' = [exc EXCEPT ![r] =
                         Exc("ValueError",
                             IF csvState = "undecodable" THEN "decode" ELSE "open")]
    /\ UNCHANGED <<csvVars, reportsDir, files, clock, mode, items, renderVars,
                   status, endpointVars>>

\* lines 44-68: one turn of the loop; DictReader passes over a blank line
ReadRow(r) ==
    /\ pc[r] = "parse_rows"
    /\ rowIdx[r] <= Len(rows)
    /\ LET row == rows[rowIdx[r]]
           out == RowOutcome(header, row)
       IN  IF row # << >> /\ out.k = "abort"
           THEN /\ pc' = [pc EXCEPT ![r] = "parse_raised"]
                /\ exc' = [exc EXCEPT ![r] = Exc("ValueError", "row")]
                /\ UNCHANGED parseVars
           ELSE /\ rowIdx' = [rowIdx EXCEPT ![r] = @ + 1]
                /\ items' = IF row # << >> /\ out.k = "item"
                            THEN [items EXCEPT ![r] = AppendItem(@, out.item, rowIdx[r])]
                            ELSE items
                /\ UNCHANGED <<pc, exc>>
    /\ UNCHANGED <<csvVars, reportsDir, files, clock, mode, renderVars, status,
                   endpointVars>>

\* lines 70-73: after the last row
EndOfRows(r) ==
    /\ pc[r] = "parse_rows"
    /\ rowIdx[r] > Len(rows)
    /\ IF items[r] = << >>
       THEN /\ pc' = [pc EXCEPT ![r] = "parse_raised"]
            /\ exc' = [exc EXCEPT ![r] = Exc("ValueError", "empty")]
       ELSE /\ pc' = [pc EXCEPT ![r] = "parse_returned"]
            /\ exc' = exc
    /\ UNCHANGED <<csvVars, reportsDir, files, clock, mode, parseVars, renderVars,
                   status, endpointVars>>

\* the environment removes the source file
RemoveCsv ==
    /\ csvState = "readable"
    /\ csvState' = "absent"
    /\ UNCHANGED <<header, rows, reportsDir, files, clock, mode, pc, rowIdx, items,
                   exc, stamp, fname, desc, status, listed, served>>

(* --------------------- PDFService.generate_sales_report --------------- *)

\* lines 38-43, before the try: the name from the clock, then makedirs
RenderStart(r) ==
    /\ pc[r] = "render_start"
    /\ stamp' = [stamp EXCEPT ![r] = clock]
    /\ fname' = [fname EXCEPT ![r] = Filename(FormatTimestamp(clock))]
    /\ IF reportsDir = "uncreatable"
       THEN /\ pc' = [pc EXCEPT ![r] = "render_raised"]
            /\ exc' = [exc EXCEPT ![r] = Exc("PermissionError", "makedirs")]
            /\ reportsDir' = reportsDir
       ELSE /\ pc' = [pc EXCEPT ![r] = "render_compose"]
            /\ exc' = exc
            /\ reportsDir' = IF reportsDir = "absent" THEN "present" ELSE reportsDir
    /\ UNCHANGED <<csvVars, files, clock, mode, parseVars, desc, status, endpointVars>>

\* lines 45-128: the story is composed and laid out in memory
Compose(r) ==
    /\ pc[r] = "render_compose"
    /\ pc' = [pc EXCEPT ![r] = "render_open"]
    /\ UNCHANGED <<csvVars, reportsDir, files, clock, mode, parseVars, exc,
                   renderVars, status, endpointVars>>

\* lines 45-128 and 140-142: composing raises
ComposeFail(r) ==
    /\ pc[r] = "render_compose"
    /\ pc' = [pc EXCEPT ![r] = "render_raised"]
    /\ exc' = [exc EXCEPT ![r] = Exc("ValueError", "compose")]
    /\ UNCHANGED <<csvVars, reportsDir, files, clock, mode, parseVars, renderVars,
                   status, endpointVars>>

\* line 128: doc.build opens filepath for writing, which creates or empties
\* the file; in a directory that cannot be written the open raises
OpenOut(r) ==
    /\ pc[r] = "render_open"
    /\ IF reportsDir = "present"
       THEN /\ files' = [files EXCEPT ![fname[r]] = [st |-> "partial", by |-> r]]
            /\ pc' = [pc EXCEPT ![r] = "render_write"]
            /\ exc' = exc
       ELSE /\ files' = files
            /\ pc' = [pc EXCEPT ![r] = "render_raised"]
            /\ exc' = [exc EXCEPT ![r] = Exc("ValueError", "open_out")]
    /\ UNCHANGED <<csvVars, reportsDir, clock, mode, parseVars, renderVars, status,
                   endpointVars>>

\* lines 128-138: the document is written out and the response returned
WriteOut(r) ==
    /\ pc[r] = "render_write"
    /\ files' = [files EXCEPT ![fname[r]] = [st |-> "complete", by |-> r]]
    /\ desc' = [desc EXCEPT ![r] =
                  [filename |-> fname[r], items_count |-> Len(items[r]),
                   total_revenue |-> TotalRevenue(items[r])]]
    /\ pc' = [pc EXCEPT ![r] = "render_returned"]
    /\ UNCHANGED <<csvVars, reportsDir, clock, mode, parseVars, exc, stamp, fname,
                   status, endpointVars>>

\* lines 128 and 140-142: the write raises, having written nothing or a part
\* of the document; the handler removes nothing
WriteFail(r) ==
    /\ pc[r] = "render_write"
    /\ \E wrote \in BOOLEAN :
         files' = IF wrote THEN [files EXCEPT ![fname[r]] = [st |-> "partial", by |-> r]]
                  ELSE files
    /\ pc' = [pc EXCEPT ![r] = "render_raised"]
    /\ exc' = [exc EXCEPT ![r] = Exc("ValueError", "write")]
    /\ UNCHANGED <<csvVars, reportsDir, clock, mode, parseVars, renderVars, status,
                   endpointVars>>

\* the wall clock advances
Tick ==
    /\ clock < MaxTick
    /\ clock' = clock + 1
    /\ UNCHANGED <<csvVars, reportsDir, files, mode, pc, parseVars, exc, renderVars,
                   status, endpointVars>>

(* ------------------------- routers/reports.py ------------------------- *)

\* line 31: the endpoint hands the parsed report to render
CallRender(r) ==
    /\ mode[r] = "endpoint"
    /\ pc[r] = "parse_returned"
    /\ pc' = [pc EXCEPT ![r] = "render_start"]
    /\ UNCHANGED <<csvVars, reportsDir, files, clock, mode, parseVars, exc,
                   renderVars, status, endpointVars>>

\* lines 33-53: the endpoint answers
Respond(r) ==
    /\ mode[r] = "endpoint"
    /\ pc[r] \in {"parse_raised", "render_raised", "render_returned"}
    /\ status' = [status EXCEPT ![r] = StatusFor(exc[r])]
    /\ pc' = [pc EXCEPT ![r] = "responded"]
    /\ UNCHANGED <<csvVars, reportsDir, files, clock, mode, parseVars, exc,
                   renderVars, endpointVars>>

\* lines 81-105: list_reports
ListReports ==
    /\ listed' = IF reportsDir \in {"absent", "uncreatable"} THEN {}
                 ELSE {[filename |-> n, st |-> files[n].st] :
                          n \in {m \in FileNames : EndsWithPdf(m) /\ files[m].st # "none"}}
    /\ UNCHANGED <<csvVars, reportsDir, files, clock, mode, pc, parseVars, exc,
                   renderVars, status, served>>

\* lines 55-79: download_report
DownloadReport(n) ==
    /\ served' = IF files[n].st = "none" THEN [code |-> 404, filename |-> n, st |-> "none"]
                 ELSE [code |-> 200, filename |-> n, st |-> files[n].st]
    /\ UNCHANGED <<csvVars, reportsDir, files, clock, mode, pc, parseVars, exc,
                   renderVars, status, listed>>

(* --------------------------- specifications --------------------------- *)

\* what no request has touched yet
InitRequests ==
    /\ clock = 0
    /\ files = [n \in FileNames |-> NoFile]
    /\ rowIdx = [r \in Requests |-> 0]
    /\ exc = [r \in Requests |-> NoExc]
    /\ stamp = [r \in Requests |-> 0]
    /\ fname = [r \in Requests |-> NoName]
    /\ desc = [r \in Requests |-> NoDesc]
    /\ status = [r \in Requests |-> 0]
    /\ listed = {}
    /\ served = [code |-> 0, filename |-> NoName, st |-> "none"]

\* the source file: only a readable file has content to speak of
InitCsv ==
    /\ csvState \in {"absent", "readable", "unopenable", "undecodable"}
    /\ IF csvState = "readable"
       THEN /\ header \in Headers
            /\ rows \in SeqsUpTo(RowSet(header), MaxRows)
       ELSE /\ header = << >>
            /\ rows = << >>

\* one call of CSVService.read_sales_data
InitParse ==
    /\ InitRequests
    /\ InitCsv
    /\ reportsDir = "absent"
    /\ mode = [r \in Requests |-> "parse"]
    /\ pc = [r \in Requests |-> IF r = "r1" THEN "parse_start" ELSE "off"]
    /\ items = [r \in Requests |-> << >>]

NextParse ==
    \/ \E r \in Requests : CheckExists(r)
    \/ \E r \in Requests : OpenCsv(r)
    \/ \E r \in Requests : ReadRow(r)
    \/ \E r \in Requests : EndOfRows(r)
    \/ RemoveCsv

SpecParse == InitParse /\ [][NextParse]_vars

\* calls of PDFService.generate_sales_report on reports built directly,
\* beside the download and list endpoints
InitRender ==
    /\ InitRequests
    /\ csvState = "absent"
    /\ header = << >>
    /\ rows = << >>
    /\ reportsDir \in {"absent", "uncreatable", "present", "readonly"}
    /\ mode = [r \in Requests |-> "render"]
    /\ pc = [r \in Requests |-> "render_start"]
    /\ items \in [Requests -> DirectReports]

NextRender ==
    \/ \E r \in Requests : RenderStart(r)
    \/ \E r \in Requests : Compose(r)
    \/ \E r \in Requests : ComposeFail(r)
    \/ \E r \in Requests : OpenOut(r)
    \/ \E r \in Requests : WriteOut(r)
    \/ \E r \in Requests : WriteFail(r)
    \/ Tick
    \/ ListReports
    \/ \E n \in FileNames : DownloadReport(n)

SpecRender == InitRender /\ [][NextRender]_vars

\* one request to the generate endpoint
Init ==
    /\ InitRequests
    /\ InitCsv
    /\ reportsDir \in {"absent", "uncreatable", "present", "readonly"}
    /\ mode = [r \in Requests |-> "endpoint"]
    /\ pc = [r \in Requests |-> IF r = "r1" THEN "parse_start" ELSE "off"]
    /\ items = [r \in Requests |-> << >>]

Next ==
    \/ \E r \in Requests : CheckExists(r)
    \/ \E r \in Requests : OpenCsv(r)
    \/ \E r \in Requests : ReadRow(r)
    \/ \E r \in Requests : EndOfRows(r)
    \/ \E r \in Requests : CallRender(r)
    \/ \E r \in Requests : RenderStart(r)
    \/ \E r \in Requests : Compose(r)
    \/ \E r \in Requests : ComposeFail(r)
    \/ \E r \in Requests : OpenOut(r)
    \/ \E r \in Requests : WriteOut(r)
    \/ \E r \in Requests : WriteFail(r)
    \/ \E r \in Requests : Respond(r)
    \/ RemoveCsv
    \/ Tick

Spec == Init /\ [][Next]_vars

(* ------------------------------ properties ---------------------------- *)

ProductColumns == {"Producto", "Product"}

QuantityColumns == {"Cantidad", "Quantity"}

PriceColumns == {"Precio", "Price"}

\* the text a row holds for a field, under either spelling of its column;
\* a column the header lacks, or a cell the row lacks, is a blank
FieldText(h, row, columns) ==
    IF \E i \in 1..Len(h) : h[i] \in columns /\ i <= Len(row)
    THEN row[CHOOSE i \in 1..Len(h) : h[i] \in columns /\ i <= Len(row)]
    ELSE << >>

IsInteger(s) == PyInt(StrVal(s)).ok

IsNumeric(s) == PyFloat(StrVal(s)).ok

\* a row the specification lets through: a name, an integer quantity of at
\* least 1, a numeric price of at least 0
ValidRow(h, row) ==
    /\ Strip(FieldText(h, row, ProductColumns)) # << >>
    /\ IsInteger(FieldText(h, row, QuantityColumns))
    /\ PyInt(StrVal(FieldText(h, row, QuantityColumns))).v >= 1
    /\ IsNumeric(FieldText(h, row, PriceColumns))
    /\ PyFloat(StrVal(FieldText(h, row, PriceColumns))).v >= 0

\* the data rows the reader turns into an item
Survivors == {i \in 1..Len(rows) : rows[i] # << >> /\ RowOutcome(header, rows[i]).k = "item"}

\* the source was opened and decoded
SourceRead(r) == pc[r] \in {"parse_rows", "parse_returned"} \/ exc[r].at \in {"row", "empty"}

\* C1: a source that opens, decodes and holds at least one valid row is
\* parsed into a report, whatever its other rows hold: no row makes the
\* call fail.
C1_NoRowAbortsParse ==
    \A r \in Requests :
        (/\ pc[r] = "parse_raised"
         /\ SourceRead(r)
         /\ \E i \in 1..Len(rows) : ValidRow(header, rows[i]))
            => FALSE

\* C2: every item of a returned report has a non-empty name without
\* surrounding whitespace, a quantity of at least 1 and a price of at
\* least 0.
C2_ItemsAreValid ==
    \A r \in Requests :
        pc[r] = "parse_returned" =>
            \A k \in 1..Len(items[r]) :
                /\ items[r][k].product # << >>
                /\ items[r][k].product = Strip(items[r][k].product)
                /\ items[r][k].quantity >= 1
                /\ items[r][k].price >= 0

\* C3: a row whose quantity is not an integer of at least 1, or whose price
\* is not a number of at least 0, a blank or absent cell or column counting
\* as not numeric, yields no item, under either spelling of the header.
C3_BadNumbersYieldNoItem ==
    \A r \in Requests :
        \A k \in 1..Len(items[r]) :
            items[r][k].row \in 1..Len(rows) =>
                LET row == rows[items[r][k].row]
                    q   == FieldText(header, row, QuantityColumns)
                    p   == FieldText(header, row, PriceColumns)
                IN  /\ IsInteger(q) /\ PyInt(StrVal(q)).v >= 1
                    /\ IsNumeric(p) /\ PyFloat(StrVal(p)).v >= 0

\* C4: the items are the surviving data rows in source order: while the
\* reader runs and when it returns, the items are exactly the survivors
\* among the rows read, one item a row, by ascending row.
C4_ItemsInRowOrder ==
    \A r \in Requests :
        pc[r] \in {"parse_rows", "parse_returned"} =>
            /\ Len(items[r]) = Cardinality({i \in Survivors : i < rowIdx[r]})
            /\ \A k \in 1..Len(items[r]) :
                 /\ items[r][k].row \in Survivors
                 /\ items[r][k].row < rowIdx[r]
                 /\ LET it == RowOutcome(header, rows[items[r][k].row]).item
                    IN  /\ items[r][k].product = it.product
                        /\ items[r][k].quantity = it.quantity
                        /\ items[r][k].price = it.price
            /\ \A j, k \in 1..Len(items[r]) : j < k => items[r][j].row < items[r][k].row
            /\ pc[r] = "parse_returned" => rowIdx[r] = Len(rows) + 1

\* a report of two items has been returned
C4_Witness ==
    \E r \in Requests : pc[r] = "parse_returned" /\ Len(items[r]) >= 2

\* C5: on a source that was read, the call returns a report exactly when a
\* row survives; with no survivor it fails for want of valid rows; and a
\* returned report is never empty.
C5_ReportIffRowSurvives ==
    \A r \in Requests :
        (pc[r] \in {"parse_returned", "parse_raised"} /\ SourceRead(r)) =>
            /\ pc[r] = "parse_returned" <=> Survivors # {}
            /\ pc[r] = "parse_returned" => items[r] # << >>
            /\ Survivors = {} => exc[r].at = "empty"

\* C6: a source that cannot be opened makes the call fail with
\* FileNotFoundError, before any row is processed, also when the file was
\* there at the existence check.
C6_UnopenableIsNotFound ==
    \A r \in Requests :
        (pc[r] = "parse_raised" /\ exc[r].at \in {"exists", "open"}) =>
            /\ exc[r].type = "FileNotFoundError"
            /\ rowIdx[r] = 0
            /\ items[r] = << >>

\* C7: every failure of a render reaches the caller as the ValueError of the
\* wrapping handler, and a failed render returns no descriptor.
C7_RenderFailuresWrapped ==
    \A r \in Requests :
        pc[r] = "render_raised" =>
            /\ exc[r].type = "ValueError"
            /\ desc[r] = NoDesc

\* C8: a render that fails leaves no incomplete file under its name, and
\* neither list_reports nor download_report ever hands out a file that is
\* not a complete document.
C8_OnlyCompleteFiles ==
    /\ \A r \in Requests :
         pc[r] = "render_raised" => files[fname[r]].st # "partial"
    /\ \A e \in listed : e.st = "complete"
    /\ served.st # "partial"

\* C9: the output name depends on the whole second of the call alone: renders
\* of different seconds have different names and leave each other's file
\* alone, renders of one second share a name and a file, which is the last
\* writer's, and a descriptor carries the name of its render.
C9_NameFromWholeSecond ==
    /\ \A r1, r2 \in Requests :
         (fname[r1] # NoName /\ fname[r2] # NoName) =>
            (stamp[r1] \div TicksPerSecond = stamp[r2] \div TicksPerSecond
                <=> fname[r1] = fname[r2])
    /\ \A r \in Requests :
         pc[r] = "render_returned" =>
            /\ desc[r].filename = fname[r]
            /\ files[fname[r]].st # "none"
            /\ fname[files[fname[r]].by] = fname[r]
            /\ (\A o \in Requests \ {r} : fname[o] # fname[r])
                  => files[fname[r]] = [st |-> "complete", by |-> r]
    /\ \A n \in FileNames : files[n].st # "none" => fname[files[n].by] = n

\* two renders of different ticks of one second have both returned
C9_Witness ==
    \E r1, r2 \in Requests :
        /\ pc[r1] = "render_returned"
        /\ pc[r2] = "render_returned"
        /\ stamp[r1] # stamp[r2]
        /\ fname[r1] = fname[r2]

\* C10: the generate endpoint answers 404 exactly when the parse failed for
\* a missing source, 400 when no row was valid, 500 when the render or the
\* write failed, and 200 only when parse and render both succeeded.
C10_StatusMapping ==
    \A r \in Requests :
        pc[r] = "responded" =>
            /\ status[r] = 404 <=> exc[r] = Exc("FileNotFoundError", "exists")
            /\ exc[r].at = "empty" => status[r] = 400
            /\ exc[r].at \in {"makedirs", "compose", "open_out", "write"} => status[r] = 500
            /\ status[r] = 200 <=> desc[r] # NoDesc

=============================================================================
